---- MODULE Spec2Model ----
(***************************************************************************)
(* Hierarchical lifecycle and scoped access of the smart-drive repository. *)
(*                                                                         *)
(* The state is the content of the tables the lifecycle handlers read and  *)
(* write: directories, documents, and the organizations / departments /    *)
(* users tables the scope resolver reads.  A request handler runs in one   *)
(* SQLAlchemy session (get_db) and commits once at its end, so one handler *)
(* is one action; a handler that raises leaves the tables as they were.    *)
(*                                                                         *)
(* Time: datetime.utcnow() is read several times by one request (once by   *)
(* the handler, once by every invocation of the cascade).  The clock of    *)
(* the model has the granularity of one request: every read made by one    *)
(* request returns the tick of that request.                               *)
(*                                                                         *)
(* Share links live outside the database, as files of SHARE_CACHE_DIR; the *)
(* share handlers and the wall clock they compare with expires_at are      *)
(* explored by ShareSpec, the directory and document lifecycle by Spec.    *)
(*                                                                         *)
(* StepSpec follows archive_directory statement by statement, for requests *)
(* handled at the same time by several workers, each with a session of its *)
(* own over the shared tables (PostgreSQL, READ COMMITTED).                *)
(***************************************************************************)
EXTENDS Integers, Sequences, FiniteSets, TLC

\* ------------------------------------------------------------------ bounds
MaxDirs  == 3      \* directories ever created in a behaviour
MaxDocs  == 1      \* documents ever uploaded in a behaviour
MaxClock == 2      \* requests that read the clock and commit a timestamp
MaxBulk  == 2      \* length of the item_ids list of a bulk request
MaxTokens == 2     \* share tokens ever issued in a behaviour
MaxDay   == 3      \* days the wall clock of the share handlers advances
MaxWorkers == 2    \* workers that handle requests at the same time

\* None of a nullable column (parent_id, directory_id, archived_at, ...).
\* Primary keys and clock ticks start at 1, so 0 is never a key or a time.
NULL == 0

\* models.StatusEnum
ACTIVE   == "active"
ARCHIVED == "archived"
TRASHED  == "trashed"
StatusEnum == {ACTIVE, ARCHIVED, TRASHED}

\* The timestamp_field argument of the cascade; restore passes None.
NoField == "None"

\* Directory names a payload may carry (non-empty, without "/").
Names == {"a"}

VARIABLES
    dirs,           \* directories table: id -> row, for the ids that exist
    docs,           \* documents table: id -> row, for the ids that exist
    next_dir_id,    \* next value of the directories.id sequence
    next_doc_id,    \* next value of the documents.id sequence
    clock,          \* utcnow() of the latest request that stored a timestamp
    organizations,  \* ids of the organizations table
    departments,    \* departments table: id -> [org_id]
    users,          \* users table: id -> [role, organization_id, department_id]
    share_tokens,   \* files of SHARE_CACHE_DIR: token -> [document_id, expires_at, created_by]
    next_token,     \* the next fresh value of secrets.token_urlsafe
    today,          \* datetime.now(timezone.utc), in days
    pc,             \* worker -> the statement of archive_directory it is about to run
    session,        \* worker -> the SessionLocal() of the request it is handling
    succeeded       \* directory id -> number of archive requests answered success=True

tables == <<organizations, departments, users>>
share_cache == <<share_tokens, next_token, today>>
in_flight == <<pc, session, succeeded>>
vars == <<dirs, docs, next_dir_id, next_doc_id, clock, organizations, departments, users,
          share_tokens, next_token, today, pc, session, succeeded>>

DirIds == 1..MaxDirs
DocIds == 1..MaxDocs

\* The session of one request: the rows it sees and, on commit, writes back.
Session(ds, dcs) == [dirs |-> ds, docs |-> dcs]


\* HTTPException / unhandled exception of a handler: nothing is committed.
Fail(db, result) == [db |-> db, result |-> result, affected |-> 0, roots |-> {}]
\* StatusUpdateResponse(success=True, affected_items=affected) after db.commit();
\* roots are the ids the handler itself transitioned (before any cascade).
Ok(db, affected, roots) == [db |-> db, result |-> "ok", affected |-> affected, roots |-> roots]

\* setattr(row, timestamp_field, timestamp) for a field name that is a string
SetStamp(row, timestamp_field, timestamp) ==
    IF timestamp_field = "archived_at"
    THEN [row EXCEPT !.archived_at = timestamp]
    ELSE [row EXCEPT !.trashed_at = timestamp]

\* db.query(Directory).filter(Directory.parent_id == parent_id).all()
ChildDirs(db, parent_id) == {c \in DOMAIN db.dirs : db.dirs[c].parent_id = parent_id}
\* db.query(Document).filter(Document.directory_id == parent_id).all()
DocsIn(db, parent_id) == {x \in DOMAIN db.docs : db.docs[x].directory_id = parent_id}

\* Mutant of update_children_status_recursive: the recursive call is missing,
\* only the direct children and the documents of parent_id are updated.
update_children_status_flat(db, parent_id, status, timestamp_field, timestamp) ==
    [db |-> [dirs |-> [d \in DOMAIN db.dirs |->
                          IF db.dirs[d].parent_id = parent_id
                          THEN SetStamp([db.dirs[d] EXCEPT !.status = status],
                                        timestamp_field, timestamp)
                          ELSE db.dirs[d]],
             docs |-> [x \in DOMAIN db.docs |->
                          IF db.docs[x].directory_id = parent_id
                          THEN SetStamp([db.docs[x] EXCEPT !.status = status],
                                        timestamp_field, timestamp)
                          ELSE db.docs[x]]],
     raised |-> FALSE]

RECURSIVE update_children_status_recursive(_, _, _, _, _)
RECURSIVE UpdateChildDirs(_, _, _, _, _)

\* The loop over child_dirs: mark the child, then recurse into it.
UpdateChildDirs(db, child_dirs, status, timestamp_field, timestamp) ==
    IF child_dirs = {} THEN db
    ELSE LET child_dir == CHOOSE c \in child_dirs : TRUE
             marked == [db EXCEPT !.dirs[child_dir] =
                           SetStamp([@ EXCEPT !.status = status], timestamp_field, timestamp)]
             below == update_children_status_recursive(
                           marked, child_dir, status, timestamp_field, timestamp)
         IN UpdateChildDirs(below.db, child_dirs \ {child_dir},
                            status, timestamp_field, timestamp)

\* Recursively update status of all children (directories and documents).
\* With timestamp_field = None, setattr(child, None, timestamp) raises
\* TypeError at the first child directory or document ("attribute name must
\* be string"); with no child and no document both loops are empty.
update_children_status_recursive(db, parent_id, status, timestamp_field, timestamp) ==
    LET child_dirs == ChildDirs(db, parent_id)
        documents == DocsIn(db, parent_id)
    IN IF timestamp_field = NoField /\ (child_dirs # {} \/ documents # {})
       THEN [db |-> db, raised |-> TRUE]
       ELSE LET after_dirs == UpdateChildDirs(db, child_dirs, status, timestamp_field, timestamp)
                after_docs == [after_dirs EXCEPT !.docs =
                                 [x \in DOMAIN @ |->
                                     IF x \in documents
                                     THEN SetStamp([@[x] EXCEPT !.status = status],
                                                   timestamp_field, timestamp)
                                     ELSE @[x]]]
            IN [db |-> after_docs, raised |-> FALSE]

\* Mutant of ArchiveAllowed: a precondition that accepts every status.
ArchiveAllowedAnyStatus(row) == row.status \in StatusEnum

\* Mutant of ArchiveAllowed: the guard of trash copied into archive.
ArchiveAllowedNotTrashed(row) == row.status # TRASHED

\* archive: only an ACTIVE row (directories.py:223, documents.py:1105)
ArchiveAllowed(row) == row.status = ACTIVE
\* trash: any row that is not TRASHED (directories.py:290, documents.py:1165)
TrashAllowed(row) == row.status # TRASHED
\* restore: any row that is not ACTIVE (directories.py:253, documents.py:1131)
RestoreAllowed(row) == row.status # ACTIVE
\* Mutant of ParentNotActive: only the existence of the parent is checked.
ParentMissing(db, ref) == ref # NULL /\ ref \notin DOMAIN db.dirs

\* "if ref: parent = query(...).first(); if not parent or parent.status != ACTIVE"
ParentNotActive(db, ref) ==
    ref # NULL /\ (ref \notin DOMAIN db.dirs \/ db.dirs[ref].status # ACTIVE)

\* PUT /dirs/{directory_id}/archive
archive_directory(db, directory_id, now) ==
    IF directory_id \notin DOMAIN db.dirs THEN Fail(db, "not_found")
    ELSE IF ~ArchiveAllowed(db.dirs[directory_id]) THEN Fail(db, "invalid_state")
    ELSE LET marked == [db EXCEPT !.dirs[directory_id] =
                           [@ EXCEPT !.status = ARCHIVED, !.archived_at = now]]
             c == update_children_status_recursive(
                      marked, directory_id, ARCHIVED, "archived_at", now)
         IN IF c.raised THEN Fail(db, "internal_error") ELSE Ok(c.db, 1, {directory_id})

\* PUT /dirs/{directory_id}/restore
restore_directory(db, directory_id, now) ==
    IF directory_id \notin DOMAIN db.dirs THEN Fail(db, "not_found")
    ELSE IF ~RestoreAllowed(db.dirs[directory_id]) THEN Fail(db, "invalid_state")
    ELSE IF ParentNotActive(db, db.dirs[directory_id].parent_id)
         THEN Fail(db, "parent_not_active")
    ELSE LET marked == [db EXCEPT !.dirs[directory_id] =
                           [@ EXCEPT !.status = ACTIVE, !.archived_at = NULL,
                                     !.trashed_at = NULL]]
             c == update_children_status_recursive(
                      marked, directory_id, ACTIVE, NoField, now)
         IN IF c.raised THEN Fail(db, "internal_error") ELSE Ok(c.db, 1, {directory_id})

\* A trash handler that stamps the row before it tests the transition, and
\* whose rejection keeps the stamped row.
move_directory_to_trash_marks_first(db, directory_id, now) ==
    IF directory_id \notin DOMAIN db.dirs THEN Fail(db, "not_found")
    ELSE LET marked == [db EXCEPT !.dirs[directory_id] =
                           [@ EXCEPT !.status = TRASHED, !.trashed_at = now]]
             c == update_children_status_recursive(
                      marked, directory_id, TRASHED, "trashed_at", now)
         IN IF ~TrashAllowed(db.dirs[directory_id]) THEN Fail(marked, "invalid_state")
            ELSE IF c.raised THEN Fail(db, "internal_error")
            ELSE Ok(c.db, 1, {directory_id})

\* PUT /dirs/{directory_id}/trash
move_directory_to_trash(db, directory_id, now) ==
    IF directory_id \notin DOMAIN db.dirs THEN Fail(db, "not_found")
    ELSE IF ~TrashAllowed(db.dirs[directory_id]) THEN Fail(db, "invalid_state")
    ELSE LET marked == [db EXCEPT !.dirs[directory_id] =
                           [@ EXCEPT !.status = TRASHED, !.trashed_at = now]]
             c == update_children_status_recursive(
                      marked, directory_id, TRASHED, "trashed_at", now)
         IN IF c.raised THEN Fail(db, "internal_error") ELSE Ok(c.db, 1, {directory_id})

\* Nested get_all_children of delete_directory_permanent: every descendant
\* directory, collected by repeated parent_id lookups.
RECURSIVE get_all_children(_, _)
get_all_children(db, parent_id) ==
    LET child_dirs == ChildDirs(db, parent_id)
    IN child_dirs \cup UNION {get_all_children(db, child) : child \in child_dirs}

\* The flush of db.delete(directory) for the directories `gone`.  The
\* one-to-many relationships of Directory (the backref of `children`, and
\* `documents`) carry neither cascade="delete" nor passive_deletes, so the
\* unit of work first sets the foreign key of every remaining child row to
\* NULL (directories.parent_id, documents.directory_id) and then deletes the
\* directory rows; documents.directory_id is ON DELETE SET NULL in the
\* schema as well.  No other row references the deleted ids afterwards, so
\* the ON DELETE CASCADE of directories.parent_id finds nothing to delete.
SessionDelete(db, gone) ==
    [dirs |-> [d \in DOMAIN db.dirs \ gone |->
                  IF db.dirs[d].parent_id \in gone
                  THEN [db.dirs[d] EXCEPT !.parent_id = NULL]
                  ELSE db.dirs[d]],
     docs |-> [x \in DOMAIN db.docs |->
                  IF db.docs[x].directory_id \in gone
                  THEN [db.docs[x] EXCEPT !.directory_id = NULL]
                  ELSE db.docs[x]]]

\* DELETE /dirs/{directory_id}/permanent
delete_directory_permanent(db, directory_id) ==
    IF directory_id \notin DOMAIN db.dirs THEN Fail(db, "not_found")
    ELSE LET all_children == get_all_children(db, directory_id)
             all_dir_ids == {directory_id} \cup all_children
             documents_count ==
                 Cardinality({x \in DOMAIN db.docs : db.docs[x].directory_id \in all_dir_ids})
             total_affected == Cardinality(all_children) + 1 + documents_count
         IN Ok(SessionDelete(db, {directory_id}), total_affected, {directory_id})

\* BulkActionRequest
Request(item_ids, item_type) == [item_ids |-> item_ids, item_type |-> item_type]

\* The loop of bulk_archive_directories over request.item_ids, from index i.
\* acc is [db, affected, roots]: the session and affected_count so far.
RECURSIVE BulkArchiveDirsLoop(_, _, _, _)
BulkArchiveDirsLoop(acc, item_ids, i, now) ==
    IF i > Len(item_ids) THEN acc
    ELSE LET dir_id == item_ids[i]
             db == acc.db
         IN IF dir_id \in DOMAIN db.dirs /\ ArchiveAllowed(db.dirs[dir_id])
            THEN LET marked == [db EXCEPT !.dirs[dir_id] =
                                   [@ EXCEPT !.status = ARCHIVED, !.archived_at = now]]
                     c == update_children_status_recursive(
                              marked, dir_id, ARCHIVED, "archived_at", now)
                 IN IF c.raised THEN [acc EXCEPT !.raised = TRUE]
                    ELSE BulkArchiveDirsLoop(
                             [db |-> c.db, affected |-> acc.affected + 1,
                              roots |-> acc.roots \cup {dir_id}, raised |-> FALSE],
                             item_ids, i + 1, now)
            ELSE BulkArchiveDirsLoop(acc, item_ids, i + 1, now)

BulkStart(db) == [db |-> db, affected |-> 0, roots |-> {}, raised |-> FALSE]
BulkEnd(db, acc) ==
    IF acc.raised THEN Fail(db, "internal_error") ELSE Ok(acc.db, acc.affected, acc.roots)

\* POST /dirs/bulk-archive
bulk_archive_directories(db, request, now) ==
    IF request.item_type # "directory" THEN Fail(db, "validation_error")
    ELSE BulkEnd(db, BulkArchiveDirsLoop(BulkStart(db), request.item_ids, 1, now))

RECURSIVE BulkTrashDirsLoop(_, _, _, _)
BulkTrashDirsLoop(acc, item_ids, i, now) ==
    IF i > Len(item_ids) THEN acc
    ELSE LET dir_id == item_ids[i]
             db == acc.db
         IN IF dir_id \in DOMAIN db.dirs /\ TrashAllowed(db.dirs[dir_id])
            THEN LET marked == [db EXCEPT !.dirs[dir_id] =
                                   [@ EXCEPT !.status = TRASHED, !.trashed_at = now]]
                     c == update_children_status_recursive(
                              marked, dir_id, TRASHED, "trashed_at", now)
                 IN IF c.raised THEN [acc EXCEPT !.raised = TRUE]
                    ELSE BulkTrashDirsLoop(
                             [db |-> c.db, affected |-> acc.affected + 1,
                              roots |-> acc.roots \cup {dir_id}, raised |-> FALSE],
                             item_ids, i + 1, now)
            ELSE BulkTrashDirsLoop(acc, item_ids, i + 1, now)

\* Mutant of bulk_trash_directories: the loop ends after the first listed id.
bulk_trash_directories_first_only(db, request, now) ==
    IF request.item_type # "directory" THEN Fail(db, "validation_error")
    ELSE LET first == IF request.item_ids = << >> THEN << >>
                      ELSE <<request.item_ids[1]>>
         IN BulkEnd(db, BulkTrashDirsLoop(BulkStart(db), first, 1, now))

\* POST /dirs/bulk-trash
bulk_trash_directories(db, request, now) ==
    IF request.item_type # "directory" THEN Fail(db, "validation_error")
    ELSE BulkEnd(db, BulkTrashDirsLoop(BulkStart(db), request.item_ids, 1, now))

RECURSIVE BulkRestoreDirsLoop(_, _, _, _)
BulkRestoreDirsLoop(acc, item_ids, i, now) ==
    IF i > Len(item_ids) THEN acc
    ELSE LET dir_id == item_ids[i]
             db == acc.db
         IN IF /\ dir_id \in DOMAIN db.dirs
               /\ RestoreAllowed(db.dirs[dir_id])
               /\ ~ParentNotActive(db, db.dirs[dir_id].parent_id)
            THEN LET marked == [db EXCEPT !.dirs[dir_id] =
                                   [@ EXCEPT !.status = ACTIVE, !.archived_at = NULL,
                                             !.trashed_at = NULL]]
                     c == update_children_status_recursive(
                              marked, dir_id, ACTIVE, NoField, now)
                 IN IF c.raised THEN [acc EXCEPT !.raised = TRUE]
                    ELSE BulkRestoreDirsLoop(
                             [db |-> c.db, affected |-> acc.affected + 1,
                              roots |-> acc.roots \cup {dir_id}, raised |-> FALSE],
                             item_ids, i + 1, now)
            ELSE BulkRestoreDirsLoop(acc, item_ids, i + 1, now)

\* POST /dirs/bulk-restore
bulk_restore_directories(db, request, now) ==
    IF request.item_type # "directory" THEN Fail(db, "validation_error")
    ELSE BulkEnd(db, BulkRestoreDirsLoop(BulkStart(db), request.item_ids, 1, now))

\* The loop of bulk_delete_directories_permanent: db.delete() marks the row;
\* with autoflush=False a later query of the same id still returns the row,
\* so a repeated id is counted again.  acc is [gone, affected].
RECURSIVE BulkDeleteDirsLoop(_, _, _, _)
BulkDeleteDirsLoop(db, acc, item_ids, i) ==
    IF i > Len(item_ids) THEN acc
    ELSE LET dir_id == item_ids[i]
         IN IF dir_id \in DOMAIN db.dirs
            THEN BulkDeleteDirsLoop(db, [gone |-> acc.gone \cup {dir_id},
                                         affected |-> acc.affected + 1], item_ids, i + 1)
            ELSE BulkDeleteDirsLoop(db, acc, item_ids, i + 1)

\* DELETE /dirs/bulk-permanent
bulk_delete_directories_permanent(db, request) ==
    IF request.item_type # "directory" THEN Fail(db, "validation_error")
    ELSE LET acc == BulkDeleteDirsLoop(db, [gone |-> {}, affected |-> 0], request.item_ids, 1)
         IN Ok(SessionDelete(db, acc.gone), acc.affected, acc.gone)

\* ------------------------------------------------------- scope resolver
\* The reserved list [0] ("no assignment"); ids start at 1.
Sentinel == {NULL}

\* utils.authorization.can_access_directory
can_access_directory(user, directory) ==
    IF user.role = "super_admin" THEN TRUE
    ELSE IF user.organization_id = NULL \/ user.department_id = NULL
         THEN IF directory.organization_id = NULL \/ directory.department_id = NULL
              THEN TRUE
              ELSE user.role = "super_admin"
    ELSE IF user.department_id = directory.department_id THEN TRUE
    ELSE IF /\ user.organization_id = directory.organization_id
            /\ user.role \in {"org_admin", "admin"}
         THEN TRUE
    ELSE FALSE

\* Mutant of get_accessible_departments: a principal without organization
\* resolves to the reserved list [0], as get_accessible_organizations does.
get_accessible_departments_reserved(user, depts) ==
    IF user.organization_id = NULL THEN Sentinel
    ELSE IF user.role = "super_admin" THEN DOMAIN depts
    ELSE IF user.role \in {"org_admin", "admin"}
         THEN {d \in DOMAIN depts : depts[d].org_id = user.organization_id}
    ELSE IF user.department_id # NULL THEN {user.department_id} ELSE {}

\* Mutant of get_accessible_departments: an org_admin is given every stored
\* department, as a super_admin is.
get_accessible_departments_unscoped(user, depts) ==
    IF user.organization_id = NULL THEN {}
    ELSE IF user.role \in {"super_admin", "org_admin", "admin"} THEN DOMAIN depts
    ELSE IF user.department_id # NULL THEN {user.department_id} ELSE {}

\* utils.authorization.get_accessible_departments; depts is the departments table
get_accessible_departments(user, depts) ==
    IF user.organization_id = NULL THEN {}
    ELSE IF user.role = "super_admin" THEN DOMAIN depts
    ELSE IF user.role \in {"org_admin", "admin"}
         THEN {d \in DOMAIN depts : depts[d].org_id = user.organization_id}
    ELSE IF user.department_id # NULL THEN {user.department_id} ELSE {}

\* utils.authorization.get_accessible_organizations; orgs is the organizations table
get_accessible_organizations(user, orgs) ==
    IF user.role = "super_admin" THEN (IF orgs # {} THEN orgs ELSE Sentinel)
    ELSE IF user.organization_id # NULL THEN {user.organization_id}
    ELSE Sentinel

\* ------------------------------------------------------------ creation
\* DirectoryCreate (is_directory of the payload is not read by the handler)
DirectoryCreate(name, parent_id, department_id, organization_id) ==
    [name |-> name, parent_id |-> parent_id,
     department_id |-> department_id, organization_id |-> organization_id]

\* "a or b" of two optional ids
OrElse(a, b) == IF a # NULL THEN a ELSE b

\* POST /dirs/ ; id is the next value of the primary-key sequence.
\* A path "/a/b" is the sequence <<"a", "b">>, the root path "/" is <<>>:
\* parent.path.rstrip("/") + "/" + name appends one component.
create_directory(db, payload, current_user, id) ==
    LET org_id == OrElse(payload.organization_id, current_user.organization_id)
        dept_id == OrElse(payload.department_id, current_user.department_id)
    IN IF dept_id = NULL \/ org_id = NULL THEN Fail(db, "bad_request")
       ELSE IF payload.parent_id # NULL /\ payload.parent_id \notin DOMAIN db.dirs
            THEN Fail(db, "not_found")
       ELSE IF /\ payload.parent_id # NULL
               /\ ~can_access_directory(current_user, db.dirs[payload.parent_id])
            THEN Fail(db, "forbidden")
       ELSE LET parent == db.dirs[payload.parent_id]
                level == IF payload.parent_id # NULL THEN parent.level + 1 ELSE 0
                path == IF payload.parent_id # NULL
                        THEN Append(parent.path, payload.name) ELSE << >>
                d == [name |-> payload.name, parent_id |-> payload.parent_id,
                      level |-> level, path |-> path, is_directory |-> TRUE,
                      status |-> ACTIVE, archived_at |-> NULL, trashed_at |-> NULL,
                      organization_id |-> org_id, department_id |-> dept_id]
            IN Ok([db EXCEPT !.dirs = @ @@ (id :> d)], 1, {id})

\* POST /docs/ ; the part that decides the stored row
upload_document(db, directory_id, current_user, id) ==
    IF current_user.department_id = NULL \/ current_user.organization_id = NULL
    THEN Fail(db, "bad_request")
    ELSE IF directory_id # NULL /\ directory_id \notin DOMAIN db.dirs
         THEN Fail(db, "not_found")
    ELSE IF /\ directory_id # NULL
            /\ ~can_access_directory(current_user, db.dirs[directory_id])
         THEN Fail(db, "forbidden")
    ELSE LET doc == [directory_id |-> directory_id, status |-> ACTIVE,
                     archived_at |-> NULL, trashed_at |-> NULL,
                     organization_id |-> current_user.organization_id,
                     department_id |-> current_user.department_id,
                     created_by |-> current_user.id]
         IN Ok([db EXCEPT !.docs = @ @@ (id :> doc)], 1, {id})

\* ------------------------------------------------- document lifecycle
\* PUT /docs/{document_id}/archive
archive_document(db, document_id, now) ==
    IF document_id \notin DOMAIN db.docs THEN Fail(db, "not_found")
    ELSE IF ~ArchiveAllowed(db.docs[document_id]) THEN Fail(db, "invalid_state")
    ELSE Ok([db EXCEPT !.docs[document_id] =
                [@ EXCEPT !.status = ARCHIVED, !.archived_at = now]], 1, {document_id})

\* PUT /docs/{document_id}/restore
restore_document(db, document_id) ==
    IF document_id \notin DOMAIN db.docs THEN Fail(db, "not_found")
    ELSE IF ~RestoreAllowed(db.docs[document_id]) THEN Fail(db, "invalid_state")
    ELSE IF ParentNotActive(db, db.docs[document_id].directory_id)
         THEN Fail(db, "parent_not_active")
    ELSE Ok([db EXCEPT !.docs[document_id] =
                [@ EXCEPT !.status = ACTIVE, !.archived_at = NULL, !.trashed_at = NULL]],
            1, {document_id})

\* PUT /docs/{document_id}/trash
move_document_to_trash(db, document_id, now) ==
    IF document_id \notin DOMAIN db.docs THEN Fail(db, "not_found")
    ELSE IF ~TrashAllowed(db.docs[document_id]) THEN Fail(db, "invalid_state")
    ELSE Ok([db EXCEPT !.docs[document_id] =
                [@ EXCEPT !.status = TRASHED, !.trashed_at = now]], 1, {document_id})

\* DELETE /docs/{document_id}/permanent
delete_document_permanent(db, document_id) ==
    IF document_id \notin DOMAIN db.docs THEN Fail(db, "not_found")
    ELSE Ok([db EXCEPT !.docs = [x \in DOMAIN @ \ {document_id} |-> @[x]]],
            1, {document_id})

\* Document.id.in_(request.item_ids)
IdsOf(item_ids) == {item_ids[i] : i \in 1..Len(item_ids)}

\* Mutant of bulk_archive_documents: the answer counts the listed ids, not
\* the rows the UPDATE matched.
bulk_archive_documents_counts_listed(db, request, now) ==
    IF request.item_type # "document" THEN Fail(db, "validation_error")
    ELSE LET hit == {x \in DOMAIN db.docs :
                        x \in IdsOf(request.item_ids) /\ ArchiveAllowed(db.docs[x])}
         IN Ok([db EXCEPT !.docs = [x \in DOMAIN @ |->
                    IF x \in hit THEN [@[x] EXCEPT !.status = ARCHIVED, !.archived_at = now]
                    ELSE @[x]]],
               Len(request.item_ids), hit)

\* POST /docs/bulk-archive : one UPDATE ... WHERE id IN (...) AND status = ACTIVE
bulk_archive_documents(db, request, now) ==
    IF request.item_type # "document" THEN Fail(db, "validation_error")
    ELSE LET hit == {x \in DOMAIN db.docs :
                        x \in IdsOf(request.item_ids) /\ ArchiveAllowed(db.docs[x])}
         IN Ok([db EXCEPT !.docs = [x \in DOMAIN @ |->
                    IF x \in hit THEN [@[x] EXCEPT !.status = ARCHIVED, !.archived_at = now]
                    ELSE @[x]]],
               Cardinality(hit), hit)

\* POST /docs/bulk-trash : one UPDATE ... WHERE id IN (...) AND status != TRASHED
bulk_trash_documents(db, request, now) ==
    IF request.item_type # "document" THEN Fail(db, "validation_error")
    ELSE LET hit == {x \in DOMAIN db.docs :
                        x \in IdsOf(request.item_ids) /\ TrashAllowed(db.docs[x])}
         IN Ok([db EXCEPT !.docs = [x \in DOMAIN @ |->
                    IF x \in hit THEN [@[x] EXCEPT !.status = TRASHED, !.trashed_at = now]
                    ELSE @[x]]],
               Cardinality(hit), hit)

\* POST /docs/bulk-restore : select the non-ACTIVE listed documents, keep
\* those whose directory is ACTIVE or absent, one UPDATE of the kept ids
bulk_restore_documents(db, request) ==
    IF request.item_type # "document" THEN Fail(db, "validation_error")
    ELSE LET documents == {x \in DOMAIN db.docs :
                              x \in IdsOf(request.item_ids) /\ RestoreAllowed(db.docs[x])}
             valid_doc_ids == {x \in documents :
                                  ~ParentNotActive(db, db.docs[x].directory_id)}
         IN Ok([db EXCEPT !.docs = [x \in DOMAIN @ |->
                    IF x \in valid_doc_ids
                    THEN [@[x] EXCEPT !.status = ACTIVE, !.archived_at = NULL,
                                      !.trashed_at = NULL]
                    ELSE @[x]]],
               Cardinality(valid_doc_ids), valid_doc_ids)

\* Mutant of bulk_delete_documents_permanent: item_type is not compared.
bulk_delete_documents_permanent_any_type(db, request) ==
    LET hit == DOMAIN db.docs \cap IdsOf(request.item_ids)
    IN Ok([db EXCEPT !.docs = [x \in DOMAIN @ \ hit |-> @[x]]],
          Cardinality(hit), hit)

\* DELETE /docs/bulk-permanent : one DELETE ... WHERE id IN (...)
bulk_delete_documents_permanent(db, request) ==
    IF request.item_type # "document" THEN Fail(db, "validation_error")
    ELSE LET hit == DOMAIN db.docs \cap IdsOf(request.item_ids)
         IN Ok([db EXCEPT !.docs = [x \in DOMAIN @ \ hit |-> @[x]]],
               Cardinality(hit), hit)

\* ------------------------------------------------------------- actions
\* Rows of the users table (models.User): the principals that send requests.
User(id, role, organization_id, department_id) ==
    [id |-> id, role |-> role,
     organization_id |-> organization_id, department_id |-> department_id]

\* The workers of the server; each request gets a session from get_db.
Workers == 1..MaxWorkers

\* A session that holds no request: nothing loaded, nothing pending.
\*   directory_id  the path parameter of the request
\*   now           utcnow() of the request
\*   calling       argument of the cascade call about to start (NULL: none)
\*   stack         the running invocations of the cascade, innermost last:
\*                 [parent_id, child_dirs], child_dirs the rows of the child
\*                 query the loop has not visited yet
\*   dirs, docs    ids of the rows the session has modified and not written
\*   seen_dir_id, seen_doc_id
\*                 the values of the id sequences when the request started:
\*                 the rows with smaller ids existed before the request
NoSession ==
    [directory_id |-> NULL, now |-> 0, calling |-> NULL, stack |-> << >>,
     dirs |-> {}, docs |-> {}, seen_dir_id |-> 0, seen_doc_id |-> 0]

Init ==
    /\ pc = [w \in Workers |-> "idle"]
    /\ session = [w \in Workers |-> NoSession]
    /\ succeeded = [d \in DirIds |-> 0]
    /\ dirs = << >>
    /\ docs = << >>
    /\ next_dir_id = 1
    /\ next_doc_id = 1
    /\ clock = 0
    /\ organizations = {1, 2}
    /\ departments = (1 :> [org_id |-> 1]) @@ (2 :> [org_id |-> 2]) @@ (3 :> [org_id |-> 1])
    /\ users = (1 :> User(1, "org_admin", 1, 1))
            @@ (2 :> User(2, "user", 2, 2))
            @@ (3 :> User(3, "super_admin", NULL, NULL))
    /\ share_tokens = << >>
    /\ next_token = 1
    /\ today = 0

\* item_ids of a bulk request: lists of at most MaxBulk ids, repeats allowed
IdLists(ids) == UNION {[1..n -> ids] : n \in 0..MaxBulk}
ItemTypes == {"directory", "document"}
\* The bulk requests sent to an endpoint that expects item_type `expected`:
\* every list with the expected type, and (the handler rejects a wrong type
\* before it reads item_ids) the one-element lists with a wrong type.
BulkRequests(ids, expected) ==
    [item_ids : IdLists(ids), item_type : {expected}]
    \cup [item_ids : {<<id>> : id \in ids}, item_type : ItemTypes \ {expected}]

\* The end of a request.  A handler that returns commits its session and
\* answers success; a handler that raises (HTTPException or TypeError) has its
\* session closed by get_db without a commit and no table changes.  stamps:
\* the handler stores utcnow() in the rows it transitions.
Respond(r, stamps) ==
    IF r.result = "ok"
    THEN LET ticks == stamps /\ r.roots # {}
         IN /\ ticks => clock < MaxClock
            /\ clock' = IF ticks THEN clock + 1 ELSE clock
            /\ dirs' = r.db.dirs
            /\ docs' = r.db.docs
    ELSE UNCHANGED <<clock, dirs, docs>>

Db == Session(dirs, docs)

\* department_id / organization_id a create payload carries: both omitted,
\* or a department of the departments table together with its organization
PayloadAssignments ==
    {[department_id |-> NULL, organization_id |-> NULL]}
    \cup {[department_id |-> d, organization_id |-> departments[d].org_id] :
              d \in {d \in DOMAIN departments : \E u \in DOMAIN users : users[u].department_id = d}}
Now == clock + 1

CreateDirectory ==
    \E u \in DOMAIN users, name \in Names, parent_id \in {NULL} \cup DirIds,
       assigned \in PayloadAssignments :
        LET payload == DirectoryCreate(name, parent_id,
                                       assigned.department_id, assigned.organization_id)
            r == create_directory(Db, payload, users[u], next_dir_id)
        IN /\ next_dir_id <= MaxDirs
           /\ Respond(r, FALSE)
           /\ next_dir_id' = IF r.result = "ok" THEN next_dir_id + 1 ELSE next_dir_id
           /\ UNCHANGED <<next_doc_id, tables, share_cache, in_flight>>

UploadDocument ==
    \E u \in DOMAIN users, directory_id \in {NULL} \cup DirIds :
        LET r == upload_document(Db, directory_id, users[u], next_doc_id)
        IN /\ next_doc_id <= MaxDocs
           /\ Respond(r, FALSE)
           /\ next_doc_id' = IF r.result = "ok" THEN next_doc_id + 1 ELSE next_doc_id
           /\ UNCHANGED <<next_dir_id, tables, share_cache, in_flight>>

ArchiveDirectory ==
    \E id \in DirIds :
        /\ Respond(archive_directory(Db, id, Now), TRUE)
        /\ UNCHANGED <<next_dir_id, next_doc_id, tables, share_cache, in_flight>>

RestoreDirectory ==
    \E id \in DirIds :
        /\ Respond(restore_directory(Db, id, Now), FALSE)
        /\ UNCHANGED <<next_dir_id, next_doc_id, tables, share_cache, in_flight>>

TrashDirectory ==
    \E id \in DirIds :
        /\ Respond(move_directory_to_trash(Db, id, Now), TRUE)
        /\ UNCHANGED <<next_dir_id, next_doc_id, tables, share_cache, in_flight>>

DeleteDirectory ==
    \E id \in DirIds :
        /\ Respond(delete_directory_permanent(Db, id), FALSE)
        /\ UNCHANGED <<next_dir_id, next_doc_id, tables, share_cache, in_flight>>

BulkArchiveDirectories ==
    \E request \in BulkRequests(DirIds, "directory") :
        /\ Respond(bulk_archive_directories(Db, request, Now), TRUE)
        /\ UNCHANGED <<next_dir_id, next_doc_id, tables, share_cache, in_flight>>

BulkTrashDirectories ==
    \E request \in BulkRequests(DirIds, "directory") :
        /\ Respond(bulk_trash_directories(Db, request, Now), TRUE)
        /\ UNCHANGED <<next_dir_id, next_doc_id, tables, share_cache, in_flight>>

BulkRestoreDirectories ==
    \E request \in BulkRequests(DirIds, "directory") :
        /\ Respond(bulk_restore_directories(Db, request, Now), FALSE)
        /\ UNCHANGED <<next_dir_id, next_doc_id, tables, share_cache, in_flight>>

BulkDeleteDirectories ==
    \E request \in BulkRequests(DirIds, "directory") :
        /\ Respond(bulk_delete_directories_permanent(Db, request), FALSE)
        /\ UNCHANGED <<next_dir_id, next_doc_id, tables, share_cache, in_flight>>

ArchiveDocument ==
    \E id \in DocIds :
        /\ Respond(archive_document(Db, id, Now), TRUE)
        /\ UNCHANGED <<next_dir_id, next_doc_id, tables, share_cache, in_flight>>

RestoreDocument ==
    \E id \in DocIds :
        /\ Respond(restore_document(Db, id), FALSE)
        /\ UNCHANGED <<next_dir_id, next_doc_id, tables, share_cache, in_flight>>

TrashDocument ==
    \E id \in DocIds :
        /\ Respond(move_document_to_trash(Db, id, Now), TRUE)
        /\ UNCHANGED <<next_dir_id, next_doc_id, tables, share_cache, in_flight>>

DeleteDocument ==
    \E id \in DocIds :
        /\ Respond(delete_document_permanent(Db, id), FALSE)
        /\ UNCHANGED <<next_dir_id, next_doc_id, tables, share_cache, in_flight>>

BulkArchiveDocuments ==
    \E request \in BulkRequests(DocIds, "document") :
        /\ Respond(bulk_archive_documents(Db, request, Now), TRUE)
        /\ UNCHANGED <<next_dir_id, next_doc_id, tables, share_cache, in_flight>>

BulkTrashDocuments ==
    \E request \in BulkRequests(DocIds, "document") :
        /\ Respond(bulk_trash_documents(Db, request, Now), TRUE)
        /\ UNCHANGED <<next_dir_id, next_doc_id, tables, share_cache, in_flight>>

BulkRestoreDocuments ==
    \E request \in BulkRequests(DocIds, "document") :
        /\ Respond(bulk_restore_documents(Db, request), FALSE)
        /\ UNCHANGED <<next_dir_id, next_doc_id, tables, share_cache, in_flight>>

BulkDeleteDocuments ==
    \E request \in BulkRequests(DocIds, "document") :
        /\ Respond(bulk_delete_documents_permanent(Db, request), FALSE)
        /\ UNCHANGED <<next_dir_id, next_doc_id, tables, share_cache, in_flight>>

Next ==
    \/ CreateDirectory
    \/ UploadDocument
    \/ ArchiveDirectory
    \/ RestoreDirectory
    \/ TrashDirectory
    \/ DeleteDirectory
    \/ BulkArchiveDirectories
    \/ BulkTrashDirectories
    \/ BulkRestoreDirectories
    \/ BulkDeleteDirectories
    \/ ArchiveDocument
    \/ RestoreDocument
    \/ TrashDocument
    \/ DeleteDocument
    \/ BulkArchiveDocuments
    \/ BulkTrashDocuments
    \/ BulkRestoreDocuments
    \/ BulkDeleteDocuments

Spec == Init /\ [][Next]_vars

\* ------------------------------------------------------------ tree terms
\* The ancestors of directory d in the directories table ds: its parent, the
\* parent of its parent, and so on up to a root.
RECURSIVE Ancestors(_, _)
Ancestors(ds, d) ==
    LET p == ds[d].parent_id
    IN IF p = NULL \/ p \notin DOMAIN ds THEN {} ELSE {p} \cup Ancestors(ds, p)

\* Directory r with every descendant at any depth.
Subtree(ds, r) == {r} \cup {d \in DOMAIN ds : r \in Ancestors(ds, d)}
\* The documents filed in r or in a descendant of r.
DocsUnder(db, r) == {x \in DOMAIN db.docs : db.docs[x].directory_id \in Subtree(db.dirs, r)}

Stamp(row, field) == IF field = "archived_at" THEN row.archived_at ELSE row.trashed_at

\* In session `after`, every directory of ds_ids and document of doc_ids has
\* the status and carries the timestamp ts in the field.
AllMarked(after, ds_ids, doc_ids, status, field, ts) ==
    /\ \A d \in ds_ids : /\ d \in DOMAIN after.dirs
                         /\ after.dirs[d].status = status
                         /\ Stamp(after.dirs[d], field) = ts
    /\ \A x \in doc_ids : /\ x \in DOMAIN after.docs
                          /\ after.docs[x].status = status
                          /\ Stamp(after.docs[x], field) = ts

DirRequests == [item_ids : IdLists(DirIds), item_type : {"directory"}]
DocRequests == [item_ids : IdLists(DocIds), item_type : {"document"}]

\* --------------------------------------------------------------- claims

\* C1: after trash(R) (resp. archive(R)) succeeds on a directory R, R, every
\* descendant directory of R at any depth and every document filed in R or in
\* a descendant has status TRASHED (resp. ARCHIVED) and trashed_at (resp.
\* archived_at) equal to the timestamp of that call; the same for every
\* listed directory of a bulk call that satisfies the precondition.
C1_CascadeReachesSubtree ==
    /\ \A id \in DOMAIN dirs :
          /\ LET r == move_directory_to_trash(Db, id, Now)
             IN r.result = "ok" =>
                   AllMarked(r.db, Subtree(dirs, id), DocsUnder(Db, id),
                             TRASHED, "trashed_at", Now)
          /\ LET r == archive_directory(Db, id, Now)
             IN r.result = "ok" =>
                   AllMarked(r.db, Subtree(dirs, id), DocsUnder(Db, id),
                             ARCHIVED, "archived_at", Now)
    /\ \A request \in DirRequests :
          /\ LET r == bulk_trash_directories(Db, request, Now)
             IN /\ r.result = "ok"
                /\ \A id \in IdsOf(request.item_ids) \cap DOMAIN dirs :
                      dirs[id].status # TRASHED =>
                          AllMarked(r.db, Subtree(dirs, id), DocsUnder(Db, id),
                                    TRASHED, "trashed_at", Now)
          /\ LET r == bulk_archive_directories(Db, request, Now)
             IN /\ r.result = "ok"
                /\ \A id \in IdsOf(request.item_ids) \cap DOMAIN dirs :
                      dirs[id].status = ACTIVE =>
                          AllMarked(r.db, Subtree(dirs, id), DocsUnder(Db, id),
                                    ARCHIVED, "archived_at", Now)

\* C1 witness: a trash has just cascaded from a root over a child, a
\* grandchild and a document filed below the root.
C1_Witness ==
    \E root \in DOMAIN dirs, child \in DOMAIN dirs, grandchild \in DOMAIN dirs,
       x \in DOMAIN docs :
        /\ dirs[child].parent_id = root
        /\ dirs[grandchild].parent_id = child
        /\ docs[x].directory_id \in {child, grandchild}
        /\ clock > 0
        /\ AllMarked(Db, {root, child, grandchild}, {x}, TRASHED, "trashed_at", clock)


\* C2: for every existing directory or document, archive succeeds exactly
\* when its status is ACTIVE and trash succeeds exactly when its status is
\* not TRASHED; a rejected call is an invalid state transition and changes
\* nothing; archive right after archive, and trash right after trash, of the
\* same node fail.
C2_ArchiveTrashPrecondition ==
    /\ \A id \in DOMAIN dirs :
          LET a == archive_directory(Db, id, Now)
              t == move_directory_to_trash(Db, id, Now)
          IN /\ (a.result = "ok") <=> (dirs[id].status = ACTIVE)
             /\ a.result # "ok" => (a.result = "invalid_state" /\ a.db = Db)
             /\ a.result = "ok" =>
                   archive_directory(a.db, id, Now + 1).result = "invalid_state"
             /\ (t.result = "ok") <=> (dirs[id].status \in {ACTIVE, ARCHIVED})
             /\ t.result # "ok" => (t.result = "invalid_state" /\ t.db = Db)
             /\ t.result = "ok" =>
                   move_directory_to_trash(t.db, id, Now + 1).result = "invalid_state"
    /\ \A id \in DOMAIN docs :
          LET a == archive_document(Db, id, Now)
              t == move_document_to_trash(Db, id, Now)
          IN /\ (a.result = "ok") <=> (docs[id].status = ACTIVE)
             /\ a.result # "ok" => (a.result = "invalid_state" /\ a.db = Db)
             /\ a.result = "ok" =>
                   archive_document(a.db, id, Now + 1).result = "invalid_state"
             /\ (t.result = "ok") <=> (docs[id].status \in {ACTIVE, ARCHIVED})
             /\ t.result # "ok" => (t.result = "invalid_state" /\ t.db = Db)
             /\ t.result = "ok" =>
                   move_document_to_trash(t.db, id, Now + 1).result = "invalid_state"

\* C2 witness: a directory has been archived and a document trashed, and the
\* repeated call is rejected for each.
C2_Witness ==
    /\ \E id \in DOMAIN dirs :
          /\ dirs[id].status = ARCHIVED
          /\ archive_directory(Db, id, Now).result = "invalid_state"
    /\ \E id \in DOMAIN docs :
          /\ docs[id].status = TRASHED
          /\ move_document_to_trash(Db, id, Now).result = "invalid_state"

\* The response says the restore precondition held (whatever came after it).
PassesPrecondition(r) == r.result \notin {"not_found", "invalid_state", "parent_not_active"}
\* The directory a parent_id / directory_id refers to exists and is not ACTIVE.
RefersToInactive(ref) == ref # NULL /\ ref \in DOMAIN dirs /\ dirs[ref].status # ACTIVE
\* No reference, or a reference to an ACTIVE directory.
RefersToActiveOrNone(ref) == ref = NULL \/ (ref \in DOMAIN dirs /\ dirs[ref].status = ACTIVE)

\* C3: restore of a directory or document is rejected when the node is
\* already ACTIVE, and rejected with ParentNotActive when its parent directory
\* (for a document: its directory) is not ACTIVE; neither changes any state.
\* A non-ACTIVE node with no such reference, or with an ACTIVE one, passes the
\* precondition.
C3_RestorePrecondition ==
    /\ \A id \in DOMAIN dirs :
          LET r == restore_directory(Db, id, Now)
              row == dirs[id]
          IN /\ row.status = ACTIVE => (r.result = "invalid_state" /\ r.db = Db)
             /\ (row.status # ACTIVE /\ RefersToInactive(row.parent_id)) =>
                   (r.result = "parent_not_active" /\ r.db = Db)
             /\ (row.status # ACTIVE /\ RefersToActiveOrNone(row.parent_id)) =>
                   PassesPrecondition(r)
    /\ \A id \in DOMAIN docs :
          LET r == restore_document(Db, id)
              row == docs[id]
          IN /\ row.status = ACTIVE => (r.result = "invalid_state" /\ r.db = Db)
             /\ (row.status # ACTIVE /\ RefersToInactive(row.directory_id)) =>
                   (r.result = "parent_not_active" /\ r.db = Db)
             /\ (row.status # ACTIVE /\ RefersToActiveOrNone(row.directory_id)) =>
                   PassesPrecondition(r)

\* C3 witness: a non-ACTIVE directory under a non-ACTIVE parent and a
\* non-ACTIVE document in a non-ACTIVE directory, both refused; and a
\* non-ACTIVE directory that passes.
C3_Witness ==
    /\ \E id \in DOMAIN dirs :
          /\ dirs[id].status # ACTIVE
          /\ RefersToInactive(dirs[id].parent_id)
          /\ restore_directory(Db, id, Now).result = "parent_not_active"
    /\ \E id \in DOMAIN docs :
          /\ docs[id].status # ACTIVE
          /\ RefersToInactive(docs[id].directory_id)
          /\ restore_document(Db, id).result = "parent_not_active"
    /\ \E id \in DOMAIN dirs :
          /\ dirs[id].status # ACTIVE
          /\ RefersToActiveOrNone(dirs[id].parent_id)
          /\ PassesPrecondition(restore_directory(Db, id, Now))


\* C4 (as claimed): for every ACTIVE directory D, with or without children or
\* documents, archive(D) followed by restore(D) succeeds and leaves D ACTIVE
\* with archived_at and trashed_at null and the level and path it had before.
C4_ArchiveRestoreRoundTrip ==
    \A id \in DOMAIN dirs :
        dirs[id].status = ACTIVE =>
            LET a == archive_directory(Db, id, Now)
                r == restore_directory(a.db, id, Now + 1)
            IN /\ a.result = "ok"
               /\ r.result = "ok"
               /\ r.db.dirs[id].status = ACTIVE
               /\ r.db.dirs[id].archived_at = NULL
               /\ r.db.dirs[id].trashed_at = NULL
               /\ r.db.dirs[id].level = dirs[id].level
               /\ r.db.dirs[id].path = dirs[id].path

\* Every directory of ds_ids and document of doc_ids is ACTIVE in `after`.
AllActive(after, ds_ids, doc_ids) ==
    /\ \A d \in ds_ids : d \in DOMAIN after.dirs /\ after.dirs[d].status = ACTIVE
    /\ \A x \in doc_ids : x \in DOMAIN after.docs /\ after.docs[x].status = ACTIVE

\* C5 (as claimed): restore(R) of a directory R whose own precondition holds
\* succeeds, and afterwards every descendant directory of R and every document
\* filed in R or in a descendant is ACTIVE, whatever its status was; the same
\* for each directory restored by bulk restore.
C5_RestoreCascades ==
    /\ \A id \in DOMAIN dirs :
          (dirs[id].status # ACTIVE /\ RefersToActiveOrNone(dirs[id].parent_id)) =>
              LET r == restore_directory(Db, id, Now)
              IN /\ r.result = "ok"
                 /\ AllActive(r.db, Subtree(dirs, id), DocsUnder(Db, id))
    /\ \A request \in DirRequests :
          LET r == bulk_restore_directories(Db, request, Now)
          IN \A id \in IdsOf(request.item_ids) \cap DOMAIN dirs :
                (dirs[id].status # ACTIVE /\ RefersToActiveOrNone(dirs[id].parent_id)) =>
                    /\ r.result = "ok"
                    /\ AllActive(r.db, Subtree(dirs, id), DocsUnder(Db, id))

\* C6 (as claimed): where a parent P is ARCHIVED and its child C is TRASHED,
\* restore(C) fails with ParentNotActive; and when restore(P) is then called
\* (P itself being restorable), a following restore(C) succeeds.
C6_RestoreBlockedThenAllowed ==
    \A p \in DOMAIN dirs, c \in DOMAIN dirs :
        (dirs[c].parent_id = p /\ dirs[p].status = ARCHIVED /\ dirs[c].status = TRASHED) =>
            /\ restore_directory(Db, c, Now).result = "parent_not_active"
            /\ RefersToActiveOrNone(dirs[p].parent_id) =>
                  LET after_p == restore_directory(Db, p, Now).db
                  IN restore_directory(after_p, c, Now).result = "ok"

\* C7 (as claimed): delete_permanent(D) of a directory D in any status removes
\* D, every descendant directory of D and every document filed in D or in a
\* descendant.
C7_DeleteRemovesSubtree ==
    \A id \in DOMAIN dirs :
        LET r == delete_directory_permanent(Db, id)
        IN /\ r.result = "ok"
           /\ Subtree(dirs, id) \cap DOMAIN r.db.dirs = {}
           /\ DocsUnder(Db, id) \cap DOMAIN r.db.docs = {}

\* The timestamps of a row match its status.
StampsMatchStatus(row) ==
    /\ row.status = ACTIVE => (row.archived_at = NULL /\ row.trashed_at = NULL)
    /\ row.status = ARCHIVED => (row.archived_at # NULL /\ row.trashed_at = NULL)
    /\ row.status = TRASHED => (row.trashed_at # NULL /\ row.archived_at = NULL)

\* C8 (as claimed): in every reachable state each directory and each document
\* has: ACTIVE implies archived_at and trashed_at null; ARCHIVED implies
\* archived_at set and trashed_at null; TRASHED implies trashed_at set and
\* archived_at null.
C8_TimestampsMatchStatus ==
    /\ \A id \in DOMAIN dirs : StampsMatchStatus(dirs[id])
    /\ \A id \in DOMAIN docs : StampsMatchStatus(docs[id])

\* C9 (as claimed): whenever restore of a directory or document succeeds,
\* every ancestor directory of the restored node is ACTIVE in the resulting
\* state.
C9_RestoredUnderActiveAncestors ==
    /\ \A id \in DOMAIN dirs :
          LET r == restore_directory(Db, id, Now)
          IN r.result = "ok" =>
                \A a \in Ancestors(r.db.dirs, id) : r.db.dirs[a].status = ACTIVE
    /\ \A id \in DOMAIN docs :
          LET r == restore_document(Db, id)
              dir == docs[id].directory_id
          IN (r.result = "ok" /\ dir # NULL) =>
                \A a \in {dir} \cup Ancestors(r.db.dirs, dir) : r.db.dirs[a].status = ACTIVE

\* The organization and the department of a row are in the resolved scope of
\* the principal.
InScope(user, row) ==
    /\ row.organization_id \in get_accessible_organizations(user, organizations)
    /\ row.department_id \in get_accessible_departments(user, departments)

\* C10 (as claimed): a lifecycle operation (archive, trash, restore, permanent
\* delete, single-item or bulk) on a directory or document outside the scope of
\* the calling principal is rejected as Unauthorized and changes nothing.  The
\* lifecycle handlers take no principal, so the response to a request is the
\* response every principal gets.
C10_OutOfScopeRejected ==
    \A u \in DOMAIN users :
        /\ \A id \in DOMAIN dirs :
              ~InScope(users[u], dirs[id]) =>
                  \A r \in {archive_directory(Db, id, Now),
                            move_directory_to_trash(Db, id, Now),
                            restore_directory(Db, id, Now),
                            delete_directory_permanent(Db, id),
                            bulk_archive_directories(Db, Request(<<id>>, "directory"), Now),
                            bulk_trash_directories(Db, Request(<<id>>, "directory"), Now),
                            bulk_restore_directories(Db, Request(<<id>>, "directory"), Now),
                            bulk_delete_directories_permanent(Db, Request(<<id>>, "directory"))} :
                      r.result = "unauthorized" /\ r.db = Db
        /\ \A id \in DOMAIN docs :
              ~InScope(users[u], docs[id]) =>
                  \A r \in {archive_document(Db, id, Now),
                            move_document_to_trash(Db, id, Now),
                            restore_document(Db, id),
                            delete_document_permanent(Db, id),
                            bulk_archive_documents(Db, Request(<<id>>, "document"), Now),
                            bulk_trash_documents(Db, Request(<<id>>, "document"), Now),
                            bulk_restore_documents(Db, Request(<<id>>, "document")),
                            bulk_delete_documents_permanent(Db, Request(<<id>>, "document"))} :
                      r.result = "unauthorized" /\ r.db = Db

\* ------------------------------------------------------------- listings
\* The listings read the tables and write nothing: they are operators over
\* the session, returning the ids of the rows they answer with.

\* Role names the routers compare against (authorization.py:60,83,99,116;
\* users.py:39).
Roles == {"super_admin", "org_admin", "admin", "dept_head", "user"}

\* The principals get_current_user can hand to a handler: a users row with any
\* role and any nullable organization_id / department_id (models.py:130-132).
Principals ==
    {User(1, role, o, d) : role \in Roles, o \in {NULL} \cup organizations,
                           d \in {NULL} \cup DOMAIN departments}

\* "if accessible != [0]: q = q.filter(column.in_(accessible))": the filter is
\* skipped for the reserved list [0]; an empty list matches no row.
ScopeFilter(value, accessible) == accessible = Sentinel \/ value \in accessible

\* routers.directories.list_directories
list_directories(db, parent_id, is_directory, status, current_user) ==
    LET accessible_depts == get_accessible_departments(current_user, departments)
        accessible_orgs == get_accessible_organizations(current_user, organizations)
    IN {d \in DOMAIN db.dirs :
           /\ db.dirs[d].parent_id = parent_id
           /\ db.dirs[d].is_directory = is_directory
           /\ db.dirs[d].status = status
           /\ ScopeFilter(db.dirs[d].organization_id, accessible_orgs)
           /\ ScopeFilter(db.dirs[d].department_id, accessible_depts)}

\* routers.directories.list_archived_directories
list_archived_directories(db) ==
    {d \in DOMAIN db.dirs : db.dirs[d].status = ARCHIVED}

\* routers.directories.list_trashed_directories
list_trashed_directories(db) ==
    {d \in DOMAIN db.dirs : db.dirs[d].status = TRASHED}

\* routers.documents.list_documents (file_type and category_id omitted: the
\* model's documents carry neither, and either filter only narrows the answer)
list_documents(db, directory_id, status, current_user) ==
    LET accessible_depts == get_accessible_departments(current_user, departments)
        accessible_orgs == get_accessible_organizations(current_user, organizations)
    IN {x \in DOMAIN db.docs :
           /\ db.docs[x].directory_id = directory_id
           /\ db.docs[x].status = status
           /\ ScopeFilter(db.docs[x].organization_id, accessible_orgs)
           /\ ScopeFilter(db.docs[x].department_id, accessible_depts)}

\* routers.documents.list_archived_documents
list_archived_documents(db, current_user) ==
    {x \in DOMAIN db.docs : db.docs[x].status = ARCHIVED}

\* routers.documents.list_trashed_documents (defined twice on the same route;
\* both definitions answer with the same rows)
list_trashed_documents(db) ==
    {x \in DOMAIN db.docs : db.docs[x].status = TRASHED}

\* folder_id of a search: None (no folder filter), distinct from 0 and every id
NoFolder == -1

\* routers.documents.search_documents without text criteria (q, title,
\* has_words, mimetype omitted: each only narrows the answer)
search_documents(db, folder_id, status, current_user) ==
    LET accessible_depts == get_accessible_departments(current_user, departments)
        accessible_orgs == get_accessible_organizations(current_user, organizations)
    IN {x \in DOMAIN db.docs :
           /\ db.docs[x].status = status
           /\ ScopeFilter(db.docs[x].organization_id, accessible_orgs)
           /\ ScopeFilter(db.docs[x].department_id, accessible_depts)
           /\ folder_id # NoFolder => db.docs[x].directory_id = folder_id}

\* The directories some directory listing answers current_user with.
ListedDirectories(db, current_user) ==
    UNION {list_directories(db, parent_id, TRUE, status, current_user) :
               parent_id \in {NULL} \cup DirIds, status \in StatusEnum}
    \cup list_archived_directories(db) \cup list_trashed_directories(db)

\* The documents some document listing answers current_user with.
ListedDocuments(db, current_user) ==
    UNION {list_documents(db, directory_id, status, current_user) :
               directory_id \in {NULL} \cup DirIds, status \in StatusEnum}
    \cup list_archived_documents(db, current_user) \cup list_trashed_documents(db)

\* C11 (as claimed): every directory listing and every document listing,
\* the archived and trash listings included, answers a principal that is not
\* super_admin only with items whose organization is in the principal's
\* accessible organizations and whose department is in its accessible
\* departments.
C11_ListingsWithinScope ==
    \A p \in Principals :
        p.role # "super_admin" =>
            /\ \A d \in ListedDirectories(Db, p) : InScope(p, dirs[d])
            /\ \A x \in ListedDocuments(Db, p) : InScope(p, docs[x])

\* Query parameters of the listings.
ParentParams == {NULL} \cup DirIds
FolderParams == {NoFolder, NULL} \cup DirIds

C14_SuperAdminSeesAll ==
    \A p \in Principals :
        p.role = "super_admin" =>
            /\ get_accessible_organizations(p, organizations) = organizations
            /\ get_accessible_departments(p, departments) = DOMAIN departments

\* The answer r of a bulk call over `listed` counts exactly the nodes of
\* `qualifying`, and every other listed id is as it was: the same row, or
\* still absent.
CountsAndSkips(r, before, after, listed, qualifying) ==
    /\ r.result = "ok"
    /\ r.affected = Cardinality(qualifying)
    /\ \A id \in listed \ qualifying :
          IF id \in DOMAIN before
          THEN id \in DOMAIN after /\ after[id] = before[id]
          ELSE id \notin DOMAIN after

\* The listed directories that satisfy the precondition of archive / trash.
ArchivableDirs(request) ==
    {d \in IdsOf(request.item_ids) \cap DOMAIN dirs : ArchiveAllowed(dirs[d])}
TrashableDirs(request) ==
    {d \in IdsOf(request.item_ids) \cap DOMAIN dirs : TrashAllowed(dirs[d])}
ArchivableDocs(request) ==
    {x \in IdsOf(request.item_ids) \cap DOMAIN docs : ArchiveAllowed(docs[x])}
TrashableDocs(request) ==
    {x \in IdsOf(request.item_ids) \cap DOMAIN docs : TrashAllowed(docs[x])}

\* Bulk archive and bulk trash of documents count the listed documents that
\* satisfy the precondition and leave the other listed ids as they were.
DocumentBulkCounts ==
    \A request \in DocRequests :
        /\ LET r == bulk_archive_documents(Db, request, Now)
           IN CountsAndSkips(r, docs, r.db.docs, IdsOf(request.item_ids),
                             ArchivableDocs(request))
        /\ LET r == bulk_trash_documents(Db, request, Now)
           IN CountsAndSkips(r, docs, r.db.docs, IdsOf(request.item_ids),
                             TrashableDocs(request))

\* C15 (as claimed): bulk archive and bulk trash over a list of ids answer
\* success with affected_items equal to the number of listed nodes that
\* satisfy the precondition of the transition; the listed nodes that fail it
\* and the ids that do not exist are skipped and left unchanged.
C15_BulkCountsQualifying ==
    /\ DocumentBulkCounts
    /\ \A request \in DirRequests :
          /\ LET r == bulk_archive_directories(Db, request, Now)
             IN CountsAndSkips(r, dirs, r.db.dirs, IdsOf(request.item_ids),
                               ArchivableDirs(request))
          /\ LET r == bulk_trash_directories(Db, request, Now)
             IN CountsAndSkips(r, dirs, r.db.dirs, IdsOf(request.item_ids),
                               TrashableDirs(request))

\* No listed directory lies below a directory of `qualifying`.
NotNested(request, qualifying) ==
    \A a \in qualifying, b \in IdsOf(request.item_ids) :
        b \in Subtree(dirs, a) => b = a

\* C15 (amended): the count and the skips are as claimed for documents, and
\* for directories when no listed directory lies below a listed directory
\* that satisfies the precondition (the cascade of the upper one reaches the
\* lower one before its turn).
C15_BulkCountsQualifyingUnnested ==
    /\ DocumentBulkCounts
    /\ \A request \in DirRequests :
          /\ NotNested(request, ArchivableDirs(request)) =>
                LET r == bulk_archive_directories(Db, request, Now)
                IN CountsAndSkips(r, dirs, r.db.dirs, IdsOf(request.item_ids),
                                  ArchivableDirs(request))
          /\ NotNested(request, TrashableDirs(request)) =>
                LET r == bulk_trash_directories(Db, request, Now)
                IN CountsAndSkips(r, dirs, r.db.dirs, IdsOf(request.item_ids),
                                  TrashableDirs(request))

\* bulk archive of [an ACTIVE directory, an already ARCHIVED directory that
\* is not below it] answers affected_items = 1 and leaves the second as it was.
C15_Witness ==
    \E a \in DOMAIN dirs, b \in DOMAIN dirs :
        LET request == Request(<<a, b>>, "directory")
            r == bulk_archive_directories(Db, request, Now)
        IN /\ dirs[a].status = ACTIVE
           /\ dirs[b].status = ARCHIVED
           /\ b \notin Subtree(dirs, a)
           /\ r.result = "ok"
           /\ r.affected = 1
           /\ r.db.dirs[a].status = ARCHIVED
           /\ r.db.dirs[b] = dirs[b]

\* The listed nodes that satisfy the precondition of restore: not ACTIVE,
\* parent / containing directory ACTIVE or absent.
RestorableDirs(request) ==
    {d \in IdsOf(request.item_ids) \cap DOMAIN dirs :
        RestoreAllowed(dirs[d]) /\ RefersToActiveOrNone(dirs[d].parent_id)}
RestorableDocs(request) ==
    {x \in IdsOf(request.item_ids) \cap DOMAIN docs :
        RestoreAllowed(docs[x]) /\ RefersToActiveOrNone(docs[x].directory_id)}

\* C16 (as claimed): every bulk restore call with the correct item_type
\* answers success; each listed node that is not ACTIVE and whose parent /
\* directory is ACTIVE or absent is restored (a directory with its subtree)
\* and counted, every other listed node is skipped, and no per-item condition
\* makes the whole call fail.
C16_BulkRestoreAlwaysSucceeds ==
    /\ \A request \in DirRequests :
          LET r == bulk_restore_directories(Db, request, Now)
          IN /\ r.result = "ok"
             /\ r.affected = Cardinality(RestorableDirs(request))
             /\ \A d \in RestorableDirs(request) :
                   AllActive(r.db, Subtree(dirs, d), DocsUnder(Db, d))
    /\ \A request \in DocRequests :
          LET r == bulk_restore_documents(Db, request)
          IN /\ CountsAndSkips(r, docs, r.db.docs, IdsOf(request.item_ids),
                               RestorableDocs(request))
             /\ \A x \in RestorableDocs(request) : r.db.docs[x].status = ACTIVE

\* item_type values other than the one an endpoint expects (item_type is a
\* free string of the request body).
WrongTypes(expected) == (ItemTypes \cup {"file", ""}) \ {expected}

\* The answer is the validation error and the tables are as they were.
RejectedUntouched(r) == r.result = "validation_error" /\ r.db = Db

\* C17: a bulk call whose item_type is not the kind the endpoint expects
\* fails as a whole with the validation error, and no directory and no
\* document is changed, for every list of ids.
C17_WrongItemTypeRejected ==
    /\ \A item_ids \in IdLists(DirIds), item_type \in WrongTypes("directory") :
          LET request == Request(item_ids, item_type)
          IN /\ RejectedUntouched(bulk_archive_directories(Db, request, Now))
             /\ RejectedUntouched(bulk_trash_directories(Db, request, Now))
             /\ RejectedUntouched(bulk_restore_directories(Db, request, Now))
             /\ RejectedUntouched(bulk_delete_directories_permanent(Db, request))
    /\ \A item_ids \in IdLists(DocIds), item_type \in WrongTypes("document") :
          LET request == Request(item_ids, item_type)
          IN /\ RejectedUntouched(bulk_archive_documents(Db, request, Now))
             /\ RejectedUntouched(bulk_trash_documents(Db, request, Now))
             /\ RejectedUntouched(bulk_restore_documents(Db, request))
             /\ RejectedUntouched(bulk_delete_documents_permanent(Db, request))

\* A stored ACTIVE directory and a stored document whose ids are listed: the
\* calls with the expected item_type change them, the calls with the other
\* item_type are rejected.
C17_Witness ==
    /\ \E d \in DOMAIN dirs :
          /\ dirs[d].status = ACTIVE
          /\ bulk_archive_directories(Db, Request(<<d>>, "directory"), Now).db # Db
          /\ RejectedUntouched(bulk_archive_directories(Db, Request(<<d>>, "document"), Now))
    /\ \E x \in DOMAIN docs :
          /\ bulk_delete_documents_permanent(Db, Request(<<x>>, "document")).db # Db
          /\ RejectedUntouched(bulk_delete_documents_permanent(Db, Request(<<x>>, "directory")))

\* C18 (as claimed): bulk permanent delete answers with affected_items equal
\* to the number of directly targeted nodes, the listed ids that are stored;
\* descendant directories and contained documents are not added to it.
C18_BulkDeleteCountsTargets ==
    /\ \A request \in DirRequests :
          LET r == bulk_delete_directories_permanent(Db, request)
          IN /\ r.result = "ok"
             /\ r.affected = Cardinality(IdsOf(request.item_ids) \cap DOMAIN dirs)
    /\ \A request \in DocRequests :
          LET r == bulk_delete_documents_permanent(Db, request)
          IN /\ r.result = "ok"
             /\ r.affected = Cardinality(IdsOf(request.item_ids) \cap DOMAIN docs)

\* --------------------------------------------------------- share links
\* A share token is a file of SHARE_CACHE_DIR named after the token; the
\* handlers that resolve a token take no principal.  The answer of a share
\* handler: the cache it leaves and its result ("ok": the document's data or
\* metadata is returned).
ShareAnswer(cache, result) == [cache |-> cache, result |-> result]

Tokens == 1..MaxTokens
\* expires_in query parameter, in days
ExpiresIn == {1, 2}

\* os.remove(token_file)
RemoveToken(cache, share_token) ==
    [t \in DOMAIN cache \ {share_token} |-> cache[t]]

\* Mutant of create_share_link: the creator of the document is given no
\* special rule.
create_share_link_scope_only(cache, db, document_id, expires_in, current_user, share_token, now) ==
    IF document_id \notin DOMAIN db.docs THEN ShareAnswer(cache, "not_found")
    ELSE LET document == db.docs[document_id]
             accessible_depts == get_accessible_departments(current_user, departments)
             accessible_orgs == get_accessible_organizations(current_user, organizations)
             has_access == /\ document.organization_id \in accessible_orgs
                           /\ document.department_id \in accessible_depts
         IN IF ~has_access
            THEN ShareAnswer(cache, "forbidden")
            ELSE ShareAnswer(cache @@ (share_token :>
                                 [document_id |-> document_id,
                                  expires_at |-> now + expires_in,
                                  created_by |-> current_user.id]), "ok")

\* POST /docs/{document_id}/share ; share_token is the fresh token drawn
create_share_link(cache, db, document_id, expires_in, current_user, share_token, now) ==
    IF document_id \notin DOMAIN db.docs THEN ShareAnswer(cache, "not_found")
    ELSE LET document == db.docs[document_id]
             accessible_depts == get_accessible_departments(current_user, departments)
             accessible_orgs == get_accessible_organizations(current_user, organizations)
             has_access == /\ document.organization_id \in accessible_orgs
                           /\ document.department_id \in accessible_depts
         IN IF document.created_by # current_user.id /\ ~has_access
            THEN ShareAnswer(cache, "forbidden")
            ELSE ShareAnswer(cache @@ (share_token :>
                                 [document_id |-> document_id,
                                  expires_at |-> now + expires_in,
                                  created_by |-> current_user.id]), "ok")

\* GET /docs/shared/{share_token}/preview ; "ok" stands for the rendered
\* content (rendering errors of a stored document are left out)
preview_shared_document(cache, db, share_token, now) ==
    IF share_token \notin DOMAIN cache THEN ShareAnswer(cache, "not_found")
    ELSE IF now > cache[share_token].expires_at
         THEN ShareAnswer(RemoveToken(cache, share_token), "expired")
    ELSE IF cache[share_token].document_id \notin DOMAIN db.docs
         THEN ShareAnswer(cache, "not_found")
    ELSE ShareAnswer(cache, "ok")

\* GET /docs/shared/{share_token}/info ; expires_at is parsed and not compared
\* (the comparison is commented out)
get_shared_document_info(cache, db, share_token, now) ==
    IF share_token \notin DOMAIN cache THEN ShareAnswer(cache, "not_found")
    ELSE IF cache[share_token].document_id \notin DOMAIN db.docs
         THEN ShareAnswer(cache, "not_found")
    ELSE ShareAnswer(cache, "ok")

\* GET /docs/shared/{share_token}/download ; `datetime` is the module here
\* (rebound by "from utils.authorization import *"), so
\* datetime.fromisoformat(...) raises AttributeError for every stored token
download_shared_document(cache, db, share_token, now) ==
    IF share_token \notin DOMAIN cache THEN ShareAnswer(cache, "not_found")
    ELSE ShareAnswer(cache, "internal_error")

\* DELETE /docs/{share_token}/revoke
revoke_share_link(cache, share_token) ==
    IF share_token \notin DOMAIN cache THEN ShareAnswer(cache, "not_found")
    ELSE ShareAnswer(RemoveToken(cache, share_token), "ok")

\* What a share handler leaves alone.
ShareFrame == UNCHANGED <<dirs, docs, next_dir_id, next_doc_id, clock, tables, in_flight>>

CreateShareLink ==
    \E u \in DOMAIN users, document_id \in DocIds, expires_in \in ExpiresIn :
        LET r == create_share_link(share_tokens, Db, document_id, expires_in,
                                   users[u], next_token, today)
        IN /\ next_token <= MaxTokens
           /\ share_tokens' = r.cache
           /\ next_token' = IF r.result = "ok" THEN next_token + 1 ELSE next_token
           /\ UNCHANGED today
           /\ ShareFrame

PreviewSharedDocument ==
    \E share_token \in Tokens :
        /\ share_tokens' = preview_shared_document(share_tokens, Db, share_token, today).cache
        /\ UNCHANGED <<next_token, today>>
        /\ ShareFrame

GetSharedDocumentInfo ==
    \E share_token \in Tokens :
        /\ share_tokens' = get_shared_document_info(share_tokens, Db, share_token, today).cache
        /\ UNCHANGED <<next_token, today>>
        /\ ShareFrame

DownloadSharedDocument ==
    \E share_token \in Tokens :
        /\ share_tokens' = download_shared_document(share_tokens, Db, share_token, today).cache
        /\ UNCHANGED <<next_token, today>>
        /\ ShareFrame

RevokeShareLink ==
    \E share_token \in Tokens :
        /\ share_tokens' = revoke_share_link(share_tokens, share_token).cache
        /\ UNCHANGED <<next_token, today>>
        /\ ShareFrame

\* A day passes.
Tick ==
    /\ today < MaxDay
    /\ today' = today + 1
    /\ UNCHANGED <<share_tokens, next_token>>
    /\ ShareFrame

\* The share handlers read the documents table and nothing of the directory
\* tree: they are explored together with the handlers that store, move and
\* remove a document.
ShareNext ==
    \/ UploadDocument
    \/ ArchiveDocument
    \/ TrashDocument
    \/ DeleteDocument
    \/ CreateShareLink
    \/ PreviewSharedDocument
    \/ GetSharedDocumentInfo
    \/ DownloadSharedDocument
    \/ RevokeShareLink
    \/ Tick

ShareSpec == Init /\ [][ShareNext]_vars

\* The answers of the three shared-access handlers for a token.
SharedAccess(cache, share_token) ==
    {preview_shared_document(cache, Db, share_token, today),
     get_shared_document_info(cache, Db, share_token, today),
     download_shared_document(cache, Db, share_token, today)}

\* C19 (as claimed): once the expiry time of a share token has passed, every
\* shared-access request made with it (preview, info, download) is refused as
\* expired and deletes the token record, so that every later request with the
\* token answers not found; no request after expiry returns data or metadata.
C19_ExpiredTokenRefused ==
    \A share_token \in DOMAIN share_tokens :
        today > share_tokens[share_token].expires_at =>
            \A first \in SharedAccess(share_tokens, share_token) :
                /\ first.result = "expired"
                /\ share_token \notin DOMAIN first.cache
                /\ \A later \in SharedAccess(first.cache, share_token) :
                      later.result = "not_found"

\* The principals that can ask for a share link: any users row, the creators
\* of the stored documents among them.
Sharers ==
    {User(i, role, o, d) : i \in DOMAIN users, role \in Roles,
                           o \in {NULL} \cup organizations,
                           d \in {NULL} \cup DOMAIN departments}

\* C20: create_share_link stores a token for the document exactly when the
\* principal is the creator of the document or its resolved scope holds both
\* the organization and the department of the document; in every other case,
\* a missing document included, it fails and the cache is as it was.
C20_ShareIssuedIffCreatorOrInScope ==
    \A p \in Sharers, document_id \in DocIds, expires_in \in ExpiresIn :
        LET r == create_share_link(share_tokens, Db, document_id, expires_in, p,
                                   next_token, today)
        IN IF /\ document_id \in DOMAIN docs
              /\ \/ docs[document_id].created_by = p.id
                 \/ InScope(p, docs[document_id])
           THEN /\ r.result = "ok"
                /\ DOMAIN r.cache = DOMAIN share_tokens \cup {next_token}
                /\ r.cache[next_token].document_id = document_id
                /\ \A t \in DOMAIN share_tokens : r.cache[t] = share_tokens[t]
           ELSE /\ r.result # "ok"
                /\ r.cache = share_tokens

\* A stored document with a creator outside the document's scope who is
\* given a token, a principal in scope who is not the creator and is given
\* one, and a principal who is neither and is refused.
C20_Witness ==
    \E document_id \in DOMAIN docs :
        LET Answer(p) == create_share_link(share_tokens, Db, document_id, 1, p,
                                           next_token, today).result
        IN /\ \E p \in Sharers :
                 /\ docs[document_id].created_by = p.id
                 /\ ~InScope(p, docs[document_id])
                 /\ Answer(p) = "ok"
           /\ \E p \in Sharers :
                 /\ docs[document_id].created_by # p.id
                 /\ InScope(p, docs[document_id])
                 /\ Answer(p) = "ok"
           /\ \E p \in Sharers :
                 /\ docs[document_id].created_by # p.id
                 /\ ~InScope(p, docs[document_id])
                 /\ Answer(p) = "forbidden"


\* ------------------------------------------------ failed requests (C21)

\* The answers of the eight single-item lifecycle handlers for one id.
SingleItemAnswers(id) ==
    { archive_directory(Db, id, Now), move_directory_to_trash(Db, id, Now),
      restore_directory(Db, id, Now), delete_directory_permanent(Db, id),
      archive_document(Db, id, Now), move_document_to_trash(Db, id, Now),
      restore_document(Db, id), delete_document_permanent(Db, id) }

\* C21: a single-item archive, trash, restore or permanent delete that answers
\* with an error (not found, invalid state transition, parent not active, or
\* an unhandled exception) leaves every directory and every document, with
\* its status and timestamps, exactly as it was before the call.
C21_ErrorsChangeNothing ==
    \A id \in DirIds \cup DocIds :
        \A r \in SingleItemAnswers(id) :
            r.result # "ok" => r.db = Db

\* A stored tree on which all three named errors occur: an unknown id, a
\* trashed directory that holds a document and is trashed again, and an
\* archived directory under an archived parent that is restored.
C21_Witness ==
    /\ \E id \in DirIds : archive_directory(Db, id, Now).result = "not_found"
    /\ \E id \in DOMAIN dirs :
           /\ move_directory_to_trash(Db, id, Now).result = "invalid_state"
           /\ DocsIn(Db, id) # {}
    /\ \E id \in DOMAIN dirs :
           /\ restore_directory(Db, id, Now).result = "parent_not_active"
           /\ dirs[id].archived_at # NULL
    /\ \E id \in DOMAIN docs : restore_document(Db, id).result = "parent_not_active"


\* ---------------------------------------------- status transitions (C22)

\* The status changes of one node that the lifecycle allows.
AllowedTransition(old, new) ==
    \/ new = old
    \/ new = ACTIVE
    \/ old = ACTIVE /\ new \in {ARCHIVED, TRASHED}
    \/ old = ARCHIVED /\ new = TRASHED

\* C22: no step (single, cascaded or bulk) moves a directory or a document
\* from TRASHED to ARCHIVED; the only status changes of a node are ACTIVE to
\* ARCHIVED, ACTIVE to TRASHED, ARCHIVED to TRASHED and the restore to ACTIVE.
C22_NoTrashedToArchived ==
    [][ /\ \A id \in DOMAIN dirs \cap DOMAIN dirs' :
              AllowedTransition(dirs[id].status, dirs'[id].status)
        /\ \A id \in DOMAIN docs \cap DOMAIN docs' :
              AllowedTransition(docs[id].status, docs'[id].status) ]_vars


\* --------------------------------------------- archive, step by step

\* db.commit(): the flush writes the pending changes of the session, one
\* UPDATE per modified row keyed by its primary key, and the transaction
\* makes them visible together.
SessionCommit(db, s) ==
    LET Written(row) == [row EXCEPT !.status = ARCHIVED, !.archived_at = s.now]
    IN [dirs |-> [id \in DOMAIN db.dirs |->
                     IF id \in s.dirs THEN Written(db.dirs[id]) ELSE db.dirs[id]],
        docs |-> [id \in DOMAIN db.docs |->
                     IF id \in s.docs THEN Written(db.docs[id]) ELSE db.docs[id]]]

StepFrame == UNCHANGED <<next_dir_id, next_doc_id, tables, share_cache>>

\* archive_directory up to the call of the cascade: load the directory, raise
\* 404 / 400 (the request ends, nothing changes), else mark the loaded row.
ArchiveRequest ==
    \E w \in Workers, directory_id \in DirIds :
        /\ pc[w] = "idle"
        /\ IF directory_id \in DOMAIN dirs /\ ArchiveAllowed(dirs[directory_id])
           THEN /\ clock < MaxClock
                /\ session' = [session EXCEPT ![w] =
                       [NoSession EXCEPT !.directory_id = directory_id, !.now = Now,
                                         !.calling = directory_id, !.dirs = {directory_id},
                                         !.seen_dir_id = next_dir_id,
                                         !.seen_doc_id = next_doc_id]]
                /\ pc' = [pc EXCEPT ![w] = "call"]
           ELSE UNCHANGED <<pc, session>>
        /\ UNCHANGED <<dirs, docs, clock, succeeded>>
        /\ StepFrame

\* update_children_status_recursive(db, calling, ...), first statement: the
\* query for the child directories of its argument.
CascadeQuery ==
    \E w \in Workers :
        /\ pc[w] = "call"
        /\ session' = [session EXCEPT ![w] =
               [@ EXCEPT !.calling = NULL,
                         !.stack = Append(@, [parent_id |-> session[w].calling,
                                              child_dirs |-> ChildDirs(Db, session[w].calling)])]]
        /\ pc' = [pc EXCEPT ![w] = "loop"]
        /\ UNCHANGED <<dirs, docs, clock, succeeded>>
        /\ StepFrame

\* The loop of the cascade with a session that writes every modified child
\* directory to the tables at once (autocommit) instead of at db.commit().
CascadeLoopAutocommit ==
    \E w \in Workers :
        LET s == session[w]
            top == s.stack[Len(s.stack)]
            Rest == SubSeq(s.stack, 1, Len(s.stack) - 1)
        IN /\ pc[w] = "loop"
           /\ \/ \E child_dir \in top.child_dirs :
                    /\ session' = [session EXCEPT ![w] =
                           [s EXCEPT !.dirs = @ \cup {child_dir},
                                     !.calling = child_dir,
                                     !.stack = Append(Rest,
                                         [top EXCEPT !.child_dirs = @ \ {child_dir}])]]
                    /\ pc' = [pc EXCEPT ![w] = "call"]
                    /\ dirs' = SessionCommit(Db, [s EXCEPT !.dirs = {child_dir}]).dirs
              \/ /\ top.child_dirs = {}
                 /\ session' = [session EXCEPT ![w] =
                        [s EXCEPT !.docs = @ \cup DocsIn(Db, top.parent_id),
                                  !.stack = Rest]]
                 /\ pc' = [pc EXCEPT ![w] = IF Rest = << >> THEN "commit" ELSE "loop"]
                 /\ dirs' = dirs
           /\ UNCHANGED <<docs, clock, succeeded>>
           /\ StepFrame

\* One turn of the loop over child_dirs of the innermost invocation: modify
\* the child, then call the cascade for it.  After the last child: query and
\* modify the documents of parent_id and return to the caller.
CascadeLoop ==
    \E w \in Workers :
        LET s == session[w]
            top == s.stack[Len(s.stack)]
            Rest == SubSeq(s.stack, 1, Len(s.stack) - 1)
        IN /\ pc[w] = "loop"
           /\ \/ \E child_dir \in top.child_dirs :
                    /\ session' = [session EXCEPT ![w] =
                           [s EXCEPT !.dirs = @ \cup {child_dir},
                                     !.calling = child_dir,
                                     !.stack = Append(Rest,
                                         [top EXCEPT !.child_dirs = @ \ {child_dir}])]]
                    /\ pc' = [pc EXCEPT ![w] = "call"]
              \/ /\ top.child_dirs = {}
                 /\ session' = [session EXCEPT ![w] =
                        [s EXCEPT !.docs = @ \cup DocsIn(Db, top.parent_id),
                                  !.stack = Rest]]
                 /\ pc' = [pc EXCEPT ![w] = IF Rest = << >> THEN "commit" ELSE "loop"]
           /\ UNCHANGED <<dirs, docs, clock, succeeded>>
           /\ StepFrame

\* db.commit() and the StatusUpdateResponse(success=True, ...).
Commit ==
    \E w \in Workers :
        LET written == SessionCommit(Db, session[w])
        IN /\ pc[w] = "commit"
           /\ dirs' = written.dirs
           /\ docs' = written.docs
           /\ clock' = IF session[w].now > clock THEN session[w].now ELSE clock
           /\ succeeded' = [succeeded EXCEPT ![session[w].directory_id] = @ + 1]
           /\ pc' = [pc EXCEPT ![w] = "idle"]
           /\ session' = [session EXCEPT ![w] = NoSession]
           /\ StepFrame

\* The request ends before db.commit() (the worker dies, a statement raises):
\* get_db closes the session, the transaction is rolled back.
Abort ==
    \E w \in Workers :
        /\ pc[w] # "idle"
        /\ pc' = [pc EXCEPT ![w] = "idle"]
        /\ session' = [session EXCEPT ![w] = NoSession]
        /\ UNCHANGED <<dirs, docs, clock, succeeded>>
        /\ StepFrame

\* The requests that build the tree while archive requests are in flight:
\* create_directory and upload_document, sent by user 1 without an
\* organization or department in the payload.
StepCreateDirectory ==
    \E name \in Names, parent_id \in {NULL} \cup DirIds :
        LET payload == DirectoryCreate(name, parent_id, NULL, NULL)
            r == create_directory(Db, payload, users[1], next_dir_id)
        IN /\ next_dir_id <= MaxDirs
           /\ Respond(r, FALSE)
           /\ next_dir_id' = IF r.result = "ok" THEN next_dir_id + 1 ELSE next_dir_id
           /\ UNCHANGED <<next_doc_id, tables, share_cache, in_flight>>

StepUploadDocument ==
    \E directory_id \in {NULL} \cup DirIds :
        LET r == upload_document(Db, directory_id, users[1], next_doc_id)
        IN /\ next_doc_id <= MaxDocs
           /\ Respond(r, FALSE)
           /\ next_doc_id' = IF r.result = "ok" THEN next_doc_id + 1 ELSE next_doc_id
           /\ UNCHANGED <<next_dir_id, tables, share_cache, in_flight>>

StepNext ==
    \/ StepCreateDirectory
    \/ StepUploadDocument
    \/ ArchiveRequest
    \/ CascadeQuery
    \/ CascadeLoop
    \/ Commit
    \/ Abort

StepSpec == Init /\ [][StepNext]_vars


\* ------------------------------------------------- one commit (C23)

\* The directories and documents of the subtree of the request of session s
\* that existed when the request started.
StartedDirs(s) == {d \in Subtree(dirs, s.directory_id) : d < s.seen_dir_id}
StartedDocs(s) == {x \in DocsUnder(Db, s.directory_id) : x < s.seen_doc_id}

Collected(s) ==
    (s.dirs \ {s.directory_id})
        \cup UNION {s.stack[i].child_dirs : i \in 1..Len(s.stack)}

\* C24: within one cascade, the ids of all descendant directories are
\* collected before the first descendant is modified: whenever a request has
\* modified a descendant, its cascade has found every descendant directory
\* that existed when the request started.
C24_CollectBeforeMutate ==
    \A w \in Workers :
        LET s == session[w]
        IN (pc[w] # "idle" /\ s.dirs \ {s.directory_id} # {})
               => StartedDirs(s) \ {s.directory_id} \subseteq Collected(s)


\* ------------------------------------- concurrent archive requests (C30)

\* C30: of the archive requests for one ACTIVE directory that several workers
\* handle at the same time, each with a session of its own, at most one is
\* answered with success, for every interleaving of their load, modify and
\* commit steps.
C30_AtMostOneSuccess ==
    \A d \in DirIds : succeeded[d] <= 1

\* C30, as the handler behaves: every request decides on the status its own
\* session loaded.  A request goes on past the load only if the tables show
\* the directory ACTIVE at that moment, so a request that loads the directory
\* after another request's commit is rejected; a request is answered success
\* only by its own commit, which leaves the directory ARCHIVED; and a
\* directory with a success answer is ARCHIVED from then on.  Requests that
\* all load the directory before the first commit all succeed.
C30_SuccessFollowsOwnLoad ==
    [][ /\ \A w \in Workers :
              (pc[w] = "idle" /\ pc'[w] # "idle")
                  => /\ session'[w].directory_id \in DOMAIN dirs
                     /\ dirs[session'[w].directory_id].status = ACTIVE
        /\ \A d \in DirIds :
              succeeded'[d] # succeeded[d]
                  => /\ succeeded'[d] = succeeded[d] + 1
                     /\ \E w \in Workers :
                            pc[w] = "commit" /\ pc'[w] = "idle" /\ session[w].directory_id = d
        /\ \A d \in DirIds :
              succeeded'[d] > 0 => d \in DOMAIN dirs' /\ dirs'[d].status = ARCHIVED
      ]_vars

\* Two requests for the same directory have both been answered with success,
\* and a third request for it would now be rejected.
C30_Witness ==
    \E d \in DOMAIN dirs :
        /\ succeeded[d] = MaxWorkers
        /\ archive_directory(Db, d, Now).result = "invalid_state"


\* ------------------------------------ access predicate and scope (C25)

\* C25: for every principal and every stored directory, can_access_directory
\* answers true exactly when the organization of the directory is in the
\* accessible organizations of the principal and its department is in the
\* accessible departments of the principal.
C25_AccessEqualsScope ==
    \A user \in Principals :
        \A id \in DOMAIN dirs :
            can_access_directory(user, dirs[id]) <=> InScope(user, dirs[id])


\* -------------------------------------------------- tree levels (C26)

\* C26: every stored directory without a parent has level 0, and every
\* stored directory with a parent has the level of its parent plus one;
\* create_directory establishes this and no lifecycle operation breaks it.
C26_LevelIsDepth ==
    \A id \in DOMAIN dirs :
        IF dirs[id].parent_id = NULL
        THEN dirs[id].level = 0
        ELSE /\ dirs[id].parent_id \in DOMAIN dirs
             /\ dirs[id].level = dirs[dirs[id].parent_id].level + 1


\* ------------------------------------------- document access (C27)

\* utils.authorization.can_access_document; depts is the departments table
\* the resolver reads through db
can_access_document(user, document, depts) ==
    IF user.role \in {"admin", "super_admin"} THEN TRUE
    ELSE IF document.created_by = user.id THEN TRUE
    ELSE IF user.organization_id # document.organization_id THEN FALSE
    ELSE LET accessible_depts == get_accessible_departments(user, depts)
         IN ~(accessible_depts # Sentinel /\ document.department_id \notin accessible_depts)

\* GET /docs/{document_id}/preview, up to the rendering of the content
preview_document(db, document_id, current_user) ==
    IF document_id \notin DOMAIN db.docs THEN Fail(db, "not_found")
    ELSE IF ~can_access_document(current_user, db.docs[document_id], departments)
         THEN Fail(db, "forbidden")
    ELSE Ok(db, 0, {})

\* C27: a principal who is neither super_admin nor the creator of a document
\* is given access to it (the preview is not refused) only if the document's
\* organization is the principal's organization and the document's
\* department is in the principal's accessible departments; no role other
\* than super_admin reaches a document of another organization.
C27_DocumentAccessWithinOrganization ==
    \A user \in Principals :
        \A id \in DOMAIN docs :
            ( /\ user.role # "super_admin"
              /\ docs[id].created_by # user.id
              /\ preview_document(Db, id, user).result = "ok" )
            => /\ docs[id].organization_id = user.organization_id
               /\ docs[id].department_id \in get_accessible_departments(user, departments)


\* ------------------------------------------ creation within scope (C28)

\* The create payloads of the model for every parent.
CreatePayloads ==
    {DirectoryCreate(name, parent_id, assigned.department_id, assigned.organization_id) :
        name \in Names, parent_id \in {NULL} \cup DirIds, assigned \in PayloadAssignments}

\* C28: create_directory called by a principal who is not super_admin never
\* stores a directory whose organization or department is outside the
\* resolved scope of the principal; a payload whose organization_id or
\* department_id is not in the accessible sets makes the call fail and
\* stores nothing.
C28_CreatedWithinScope ==
    \A u \in DOMAIN users : \A payload \in CreatePayloads :
        LET r == create_directory(Db, payload, users[u], next_dir_id)
            named_outside ==
                \/ /\ payload.organization_id # NULL
                   /\ payload.organization_id
                          \notin get_accessible_organizations(users[u], organizations)
                \/ /\ payload.department_id # NULL
                   /\ payload.department_id
                          \notin get_accessible_departments(users[u], departments)
        IN users[u].role # "super_admin" =>
              /\ r.result = "ok" => InScope(users[u], r.db.dirs[next_dir_id])
              /\ named_outside => (r.result # "ok" /\ r.db = Db)


\* ------------------------------------- order of a bulk list (C29)

\* Every ordering of the list item_ids.
Orderings(item_ids) ==
    LET n == Len(item_ids)
        Bijections == {p \in [1..n -> 1..n] : \A i, j \in 1..n : p[i] = p[j] => i = j}
    IN {[i \in 1..n |-> item_ids[p[i]]] : p \in Bijections}

\* The status of every stored directory and document.
Statuses(db) ==
    [dirs |-> [d \in DOMAIN db.dirs |-> db.dirs[d].status],
     docs |-> [x \in DOMAIN db.docs |-> db.docs[x].status]]

\* C29: bulk archive and bulk trash of directories give the same final status
\* of every node and the same affected_items for every ordering of the same
\* id list, lists with a directory and its descendant and lists with
\* repeated ids included.
C29_BulkOrderIndependent ==
    \A request \in DirRequests : \A item_ids \in Orderings(request.item_ids) :
        LET other == Request(item_ids, "directory")
        IN /\ LET r == bulk_archive_directories(Db, request, Now)
                  o == bulk_archive_directories(Db, other, Now)
              IN Statuses(r.db) = Statuses(o.db) /\ r.affected = o.affected
           /\ LET r == bulk_trash_directories(Db, request, Now)
                  o == bulk_trash_directories(Db, other, Now)
              IN Statuses(r.db) = Statuses(o.db) /\ r.affected = o.affected

\* C29 (amended): every ordering of the list leaves the same rows (status
\* and timestamps of every node); affected_items is the same for every
\* ordering when no listed directory lies below a listed directory that
\* satisfies the precondition.
C29_BulkOrderIndependentUnnested ==
    \A request \in DirRequests : \A item_ids \in Orderings(request.item_ids) :
        LET other == Request(item_ids, "directory")
        IN /\ LET r == bulk_archive_directories(Db, request, Now)
                  o == bulk_archive_directories(Db, other, Now)
              IN /\ r.db = o.db
                 /\ NotNested(request, ArchivableDirs(request)) => r.affected = o.affected
           /\ LET r == bulk_trash_directories(Db, request, Now)
                  o == bulk_trash_directories(Db, other, Now)
              IN /\ r.db = o.db
                 /\ NotNested(request, TrashableDirs(request)) => r.affected = o.affected

\* An ACTIVE directory and an ACTIVE directory below it, listed in both
\* orders: the same rows result, the counts differ; and two unrelated
\* directories of which one qualifies, for which the counts agree.
C29_Witness ==
    /\ \E a \in DOMAIN dirs, b \in DOMAIN dirs :
           LET r == bulk_archive_directories(Db, Request(<<a, b>>, "directory"), Now)
               o == bulk_archive_directories(Db, Request(<<b, a>>, "directory"), Now)
           IN /\ b \in Subtree(dirs, a) \ {a}
              /\ dirs[a].status = ACTIVE /\ dirs[b].status = ACTIVE
              /\ r.db = o.db
              /\ r.affected = 1 /\ o.affected = 2
    /\ \E a \in DOMAIN dirs, b \in DOMAIN dirs :
           LET r == bulk_trash_directories(Db, Request(<<a, b>>, "directory"), Now)
               o == bulk_trash_directories(Db, Request(<<b, a>>, "directory"), Now)
           IN /\ b \notin Subtree(dirs, a) /\ a \notin Subtree(dirs, b)
              /\ dirs[a].status = TRASHED /\ dirs[b].status # TRASHED
              /\ r.db = o.db
              /\ r.affected = 1 /\ o.affected = 1

====
